---- MODULE Spec2Model ----
(***************************************************************************)
(* Recipe Finder (src/src/App.js): the App component's state, its event    *)
(* handlers and the two asynchronous procedures searchRecipes and          *)
(* fetchRecipeDetails, with the lookup requests they leave in flight.      *)
(*                                                                         *)
(* Strings are sequences of one-character strings, so that split, trim,    *)
(* filter and join are computed as the code computes them.  A nullable     *)
(* value is a sequence of length at most one: <<>> is null, <<x>> is x.    *)
(*                                                                         *)
(* One action is one macrotask: an event handler, or the arrival of a      *)
(* response together with the promise continuations it triggers.           *)
(* A handler can fire whenever the element carrying it is rendered and     *)
(* enabled: the search input is disabled while loading, the submit button  *)
(* while loading or while the query is blank.                              *)
(***************************************************************************)
EXTENDS Naturals, Sequences, FiniteSets

VARIABLES
    searchQuery,      \* App.js:53
    recipes,          \* App.js:54
    loading,          \* App.js:55
    error,            \* App.js:56
    hasSearched,      \* App.js:57
    selectedRecipe,   \* App.js:58
    recipeDetails,    \* App.js:59
    detailsLoading,   \* App.js:60
    detailsError,     \* App.js:61
    searches,         \* the searchRecipes invocations that are awaiting, in start order
    orphans,          \* requests outstanding of searches that have already ended
    details,          \* the fetchRecipeDetails invocations that are awaiting
    ev,               \* history: the response the last step handled, if any
    runs              \* history: the outcomes of the searches run for comparison

vars == <<searchQuery, recipes, loading, error, hasSearched, selectedRecipe,
          recipeDetails, detailsLoading, detailsError, searches, orphans, details,
          ev, runs>>

searchVars == <<recipes, loading, error, hasSearched, searchQuery>>
detailVars == <<selectedRecipe, recipeDetails, detailsLoading, detailsError>>

\* Lookup-by-ingredient requests that may be outstanding at the same time.
MaxRequests == 2
\* Detail fetches that may be outstanding at the same time.
MaxDetails == 2
\* Runs of the same search that are compared with each other.
MaxRuns == 2
\* Characters of an instructions text.
MaxText == 5

-----------------------------------------------------------------------------
(* Values *)

Null == <<>>
Some(x) == <<x>>

SetMin(S) == CHOOSE x \in S : \A y \in S : x <= y
SetMax(S) == CHOOSE x \in S : \A y \in S : y <= x

-----------------------------------------------------------------------------
(* String functions of JavaScript used by searchRecipes *)

\* The characters String.prototype.trim strips (WhiteSpace and
\* LineTerminator of ECMAScript): tab, line feed, vertical tab, form feed,
\* carriage return, space, no-break space, U+FEFF and U+1680.  The space
\* separators U+2000 to U+200A, U+202F, U+205F and U+3000 and the line
\* terminators U+2028 and U+2029 cannot be written in a string of TLA+ and
\* are outside the alphabet of the model.
IsWhitespace(c) ==
    c \in {"\t", "\n", "\f", "\r", " ", "", " ", "﻿", " "}

\* String.prototype.trim
Trim(s) ==
    LET keep == {i \in 1..Len(s) : ~IsWhitespace(s[i])}
    IN  IF keep = {} THEN <<>> ELSE SubSeq(s, SetMin(keep), SetMax(keep))

\* String.prototype.split(','): "" gives [""], "," gives ["", ""]
RECURSIVE Split(_)
Split(s) ==
    LET commas == {i \in 1..Len(s) : s[i] = ","}
    IN  IF commas = {} THEN <<s>>
        ELSE LET i == SetMin(commas)
             IN  <<SubSeq(s, 1, i - 1)>> \o Split(SubSeq(s, i + 1, Len(s)))

\* Array.prototype.join(', ')
RECURSIVE Join(_)
Join(ts) ==
    IF Len(ts) = 0 THEN <<>>
    ELSE IF Len(ts) = 1 THEN ts[1]
    ELSE ts[1] \o <<",", " ">> \o Join(Tail(ts))

IsNonEmpty(s) == s # <<>>

\* query.split(',').map(s => s.trim()).filter(Boolean)
Ingredients(query) ==
    LET pieces == Split(query)
    IN  SelectSeq([i \in 1..Len(pieces) |-> Trim(pieces[i])], IsNonEmpty)

-----------------------------------------------------------------------------
(* extractIngredients and formatInstructions.  A detail record holds its
   ingredient slots as strIngredient[i] and strMeasure[i], null where the
   record has no such field or holds null there. *)

\* The number of ingredient fields the loop reads
SlotCount == 20

\* A slip in the test: a name of blanks only is taken for an ingredient
HasIngredientUntrimmed(ingredient) ==
    ingredient # Null /\ ingredient[1] # <<>>

\* ingredient && ingredient.trim(): null and "" are falsy
HasIngredient(ingredient) ==
    ingredient # Null /\ ingredient[1] # <<>> /\ Trim(ingredient[1]) # <<>>

\* (measure || '').trim()
MeasureOf(measure) == IF measure = Null THEN <<>> ELSE Trim(measure[1])

\* The loop of extractIngredients from slot i on
RECURSIVE ExtractFrom(_, _)
ExtractFrom(record, i) ==
    IF i > SlotCount THEN <<>>
    ELSE LET ingredient == record.strIngredient[i]
             measure == record.strMeasure[i]
         IN  (IF HasIngredient(ingredient)
              THEN <<[ingredient |-> Trim(ingredient[1]), measure |-> MeasureOf(measure)]>>
              ELSE <<>>) \o ExtractFrom(record, i + 1)

ExtractIngredients(record) == ExtractFrom(record, 1)

\* String.prototype.split('\n')
RECURSIVE SplitLines(_)
SplitLines(s) ==
    LET breaks == {i \in 1..Len(s) : s[i] = "\n"}
    IN  IF breaks = {} THEN <<s>>
        ELSE LET i == SetMin(breaks)
             IN  <<SubSeq(s, 1, i - 1)>> \o SplitLines(SubSeq(s, i + 1, Len(s)))

IsNonBlank(step) == Trim(step) # <<>>

\* A slip: the steps are filtered but not trimmed
FormatInstructionsUntrimmed(instructions) ==
    IF instructions = Null \/ instructions[1] = <<>> THEN <<>>
    ELSE SelectSeq(SplitLines(instructions[1]), IsNonBlank)

\* if (!instructions) return []; split, filter, map
FormatInstructions(instructions) ==
    IF instructions = Null \/ instructions[1] = <<>> THEN <<>>
    ELSE LET steps == SelectSeq(SplitLines(instructions[1]), IsNonBlank)
         IN  [k \in 1..Len(steps) |-> Trim(steps[k])]

-----------------------------------------------------------------------------
(* The lookup service (external).  Ingredient names are abbreviated to one
   letter: a = chicken, b = tomato, c = pasta, d = rice, the four suggestion
   tags of the welcome screen, and e, an ingredient that is no suggestion.
   An identifier that is empty or absent is 0.
   A summary object is [idMeal, from]: from names the response it was parsed
   from, which is what tells two objects with the same identifier apart. *)

Suggestions == {<<"a">>, <<"b">>, <<"c">>, <<"d">>}

Meals(t, ids) == [i \in 1..Len(ids) |-> [idMeal |-> ids[i], from |-> t]]

\* data.meals of filter.php?i=t: null when nothing matches
Upstream(t) ==
    IF t = <<"a">> THEN Some(Meals(t, <<1, 2, 3>>))
    ELSE IF t = <<"b">> THEN Some(Meals(t, <<3, 2, 0>>))
    ELSE IF t = <<"d">> THEN Some(<<>>)
    ELSE IF t = <<"e">> THEN Some(Meals(t, <<4>>))
    ELSE Null

\* What the user can type into the search box.
Queries ==
    { <<>>, <<" ">>, <<",">>, <<"a">>, <<"c">>, <<"d">>,
      <<"a", ",", "b">>, <<"b", ",", " ", "a">>, <<"a", ",", "c">>,
      <<"a", ",", "e">>, <<"\t", "a">> }

\* How one lookup request can end: fetch rejects (transport), the status is
\* not ok (the code throws an Error), or the body is parsed.
Rejections == {"TypeError", "Error"}
Outcomes == {"ok"} \cup Rejections

-----------------------------------------------------------------------------
(* Messages *)

NoError == [kind |-> "", text |-> <<>>]
NoRecipesWith(query) == [kind |-> "NoRecipesWith", text |-> query]
\* A slip in the message: only the first ingredient is named
NoRecipesAllFirst(ingredients) == [kind |-> "NoRecipesAll", text |-> ingredients[1]]
NoRecipesAll(ingredients) == [kind |-> "NoRecipesAll", text |-> Join(ingredients)]
NetworkError == [kind |-> "NetworkError", text |-> <<>>]
SearchFailed == [kind |-> "SearchFailed", text |-> <<>>]
DetailsConnection == [kind |-> "DetailsConnection", text |-> <<>>]
DetailsFailed == [kind |-> "DetailsFailed", text |-> <<>>]

\* catch (err) of searchRecipes
SearchCatch(name) == IF name = "TypeError" THEN NetworkError ELSE SearchFailed

\* catch (err) of fetchRecipeDetails
DetailsCatch(name) == IF name = "TypeError" THEN DetailsConnection ELSE DetailsFailed

-----------------------------------------------------------------------------
(* The try block of searchRecipes.  Its result says what it wrote:
   threw is err.name when it threw, setsError whether setError was called. *)

Threw(name) == [threw |-> name, recipes |-> <<>>, setsError |-> FALSE, error |-> NoError]
Wrote(list) == [threw |-> "", recipes |-> list, setsError |-> FALSE, error |-> NoError]

\* A slip in the error paths: the list held is not emptied
WroteErrorKeepsList(msg) ==
    [threw |-> "", recipes |-> recipes, setsError |-> TRUE, error |-> msg]

WroteError(msg) == [threw |-> "", recipes |-> <<>>, setsError |-> TRUE, error |-> msg]

\* if (data.meals): null is falsy, every array is truthy
Truthy(opt) == opt # Null

\* A slip in the single-term branch: the first recipe of the list is lost
SingleBodyTail(query, meals) ==
    IF Truthy(meals) THEN Wrote(SubSeq(meals[1], 2, Len(meals[1])))
    ELSE WroteError(NoRecipesWith(query))

\* ingredients.length === 1
SingleBody(query, meals) ==
    IF Truthy(meals) THEN Wrote(meals[1]) ELSE WroteError(NoRecipesWith(query))

IdSet(list) == {list[i].idMeal : i \in 1..Len(list)}

\* A slip in the filter: some instead of every
CommonIdsSome(lists) ==
    LET ids == [i \in 1..Len(lists[1]) |-> lists[1][i].idMeal]
        InSome(id) == \E k \in 1..Len(lists) : id \in IdSet(lists[k])
    IN  SelectSeq(ids, InSome)

\* A slip in the filter: the last term's identifier set is not consulted
CommonIdsSkipsLast(lists) ==
    LET ids == [i \in 1..Len(lists[1]) |-> lists[1][i].idMeal]
        InEvery(id) == \A k \in 1..(Len(lists) - 1) : id \in IdSet(lists[k])
    IN  SelectSeq(ids, InEvery)

\* firstList.map(m => m.idMeal).filter(id => idSets.every(s => s.has(id)))
CommonIds(lists) ==
    LET ids == [i \in 1..Len(lists[1]) |-> lists[1][i].idMeal]
        InEvery(id) == \A k \in 1..Len(lists) : id \in IdSet(lists[k])
    IN  SelectSeq(ids, InEvery)

\* A slip in the map: the first entry of the first list is left out
MealMapHasTail(firstList, id) == id \in IdSet(Tail(firstList))

\* new Map(firstList.map(m => [m.idMeal, m])): a later entry replaces an earlier one
MealMapHas(firstList, id) == id \in IdSet(firstList)
MealMapGet(firstList, id) ==
    firstList[SetMax({i \in 1..Len(firstList) : firstList[i].idMeal = id})]

\* fallback: the first object with this identifier in the results, in request order
RECURSIVE FallbackFind(_, _)
FallbackFind(lists, id) ==
    IF Len(lists) = 0 THEN Null
    ELSE LET hits == {i \in 1..Len(lists[1]) : lists[1][i].idMeal = id}
         IN  IF hits # {} THEN Some(lists[1][SetMin(hits)])
             ELSE FallbackFind(Tail(lists), id)

\* commonIds.map(...).filter(Boolean)
Intersected(lists) ==
    LET common == CommonIds(lists)
        Pick(id) == IF MealMapHas(lists[1], id) THEN Some(MealMapGet(lists[1], id))
                    ELSE FallbackFind(lists, id)
        picked == [i \in 1..Len(common) |-> Pick(common[i])]
        kept == SelectSeq(picked, Truthy)
    IN  [i \in 1..Len(kept) |-> kept[i][1]]

\* the else branch, after Promise.all: results[i] is data.meals of request i
MultiBody(ingredients, results) ==
    IF \E i \in 1..Len(results) : ~Truthy(results[i])
    THEN WroteError(NoRecipesAll(ingredients))
    ELSE IF Len(results) = 0
    THEN Threw("TypeError")    \* results[0] is undefined: results[0].meals throws
    ELSE LET intersected == Intersected([i \in 1..Len(results) |-> results[i][1]])
         IN  IF Len(intersected) > 0 THEN Wrote(intersected)
             ELSE WroteError(NoRecipesAll(ingredients))

-----------------------------------------------------------------------------
(* State *)

\* ev is [id, answer, held] when the last step ended a detail fetch: the
\* identifier it looked up, how the lookup ended, and the detail that was held
\* when fetchRecipeDetails was called.
NoEv == [id |-> 0, answer |-> "", held |-> Null]

\* runs is [resp, out]: resp[j] is how the request for term j ends in every
\* run that is compared, out the recipes and error each such run ended with.
\* Nothing is recorded while resp is empty.
NoRuns == [resp |-> <<>>, out |-> <<>>]

Recorded(query, list, msg) ==
    IF runs.resp = <<>> THEN runs
    ELSE [runs EXCEPT !.out = Append(@, [query |-> query, recipes |-> list, error |-> msg])]

Init ==
    /\ searchQuery = <<>>
    /\ recipes = <<>>
    /\ loading = FALSE
    /\ error = NoError
    /\ hasSearched = FALSE
    /\ selectedRecipe = Null
    /\ recipeDetails = Null
    /\ detailsLoading = FALSE
    /\ detailsError = NoError
    /\ searches = <<>>
    /\ orphans = 0
    /\ details = <<>>
    /\ ev = NoEv
    /\ runs = NoRuns

\* What is rendered (the conditions of the JSX)
ShowsError == error # NoError
ShowsGrid == ~loading /\ error = NoError /\ Len(recipes) > 0
ShowsWelcome == ~loading /\ error = NoError /\ ~hasSearched
ShowsModal == selectedRecipe # Null
ShowsRetry == ShowsModal /\ ~detailsLoading /\ detailsError # NoError

Remove(s, k) == [i \in 1..(Len(s) - 1) |-> IF i < k THEN s[i] ELSE s[i + 1]]

Pending(st) == {i \in 1..Len(st) : st[i] = "pending"}

RECURSIVE SumPending(_)
SumPending(ss) ==
    IF Len(ss) = 0 THEN 0 ELSE Cardinality(Pending(ss[1].st)) + SumPending(Tail(ss))

\* The lookup-by-ingredient requests that have not ended
Outstanding == SumPending(searches) + orphans

-----------------------------------------------------------------------------
(* searchRecipes *)

\* if (!query.trim()) return
IsBlank(query) == Trim(query) = <<>>

\* A slip in the end of a search: loading is not switched off
SearchFinishKeepsLoading(r) ==
    /\ recipes' = IF r.threw # "" THEN <<>> ELSE r.recipes
    /\ error' = IF r.threw # "" THEN SearchCatch(r.threw)
                ELSE IF r.setsError THEN r.error ELSE error
    /\ UNCHANGED loading

\* catch and finally of searchRecipes, after the try block ended with r
SearchFinish(r) ==
    /\ recipes' = IF r.threw # "" THEN <<>> ELSE r.recipes
    /\ error' = IF r.threw # "" THEN SearchCatch(r.threw)
                ELSE IF r.setsError THEN r.error ELSE error
    /\ loading' = FALSE

\* The try block once the awaited promise is settled: o is the rejection
\* the await threw, or "ok" when it returned the parsed bodies.
SearchBody(query, o) ==
    LET ingredients == Ingredients(query)
    IN  IF o \in Rejections THEN Threw(o)
        ELSE IF Len(ingredients) = 1
             THEN SingleBody(query, Upstream(ingredients[1]))
             ELSE MultiBody(ingredients,
                            [j \in 1..Len(ingredients) |-> Upstream(ingredients[j])])

\* await Promise.all(fetches), or the awaits of the single request: with the
\* requests in state st, the function resumes when one request has rejected
\* or all are fulfilled.
Resumes(st) ==
    \/ \E j \in 1..Len(st) : st[j] \in Rejections
    \/ \A j \in 1..Len(st) : st[j] = "ok"

\* Every awaiting search is superseded when a later search is started
Superseded == [k \in 1..Len(searches) |-> [searches[k] EXCEPT !.stale = TRUE]]

\* A slip in the reset: the selection and the detail held are left alone
SearchRecipesKeepsDetail(query) ==
    IF IsBlank(query)
    THEN UNCHANGED <<recipes, loading, error, hasSearched, selectedRecipe,
                     recipeDetails, detailsLoading, detailsError, searches,
                     orphans, details>>
    ELSE LET n == Len(Ingredients(query))
         IN  /\ hasSearched' = TRUE
             /\ detailsError' = NoError
             /\ UNCHANGED <<selectedRecipe, recipeDetails>>
             /\ UNCHANGED <<detailsLoading, details, orphans>>
             /\ IF n = 0
                THEN /\ SearchFinish(SearchBody(query, "ok"))
                     /\ searches' = Superseded
                ELSE /\ Outstanding + n <= MaxRequests
                     /\ loading' = TRUE
                     /\ error' = NoError
                     /\ UNCHANGED recipes
                     /\ searches' = Append(Superseded,
                                           [query |-> query,
                                            st |-> [j \in 1..n |-> "pending"],
                                            stale |-> FALSE])

\* searchRecipes(query), up to its first await.  With no ingredient,
\* Promise.all([]) is fulfilled at once and the function runs to its end.
SearchRecipes(query) ==
    IF IsBlank(query)
    THEN UNCHANGED <<recipes, loading, error, hasSearched, selectedRecipe,
                     recipeDetails, detailsLoading, detailsError, searches,
                     orphans, details>>
    ELSE LET n == Len(Ingredients(query))
         IN  /\ hasSearched' = TRUE
             /\ detailsError' = NoError
             /\ selectedRecipe' = Null
             /\ recipeDetails' = Null
             /\ UNCHANGED <<detailsLoading, details, orphans>>
             /\ IF n = 0
                THEN /\ SearchFinish(SearchBody(query, "ok"))
                     /\ searches' = Superseded
                ELSE /\ Outstanding + n <= MaxRequests
                     /\ loading' = TRUE
                     /\ error' = NoError
                     /\ UNCHANGED recipes
                     /\ searches' = Append(Superseded,
                                           [query |-> query,
                                            st |-> [j \in 1..n |-> "pending"],
                                            stale |-> FALSE])

\* onChange of the search input, which is disabled while loading
HandleChange(q) ==
    /\ ~loading
    /\ searchQuery' = q
    /\ UNCHANGED <<recipes, loading, error, hasSearched, selectedRecipe, recipeDetails,
                   detailsLoading, detailsError, searches, orphans, details>>
    /\ ev' = NoEv
    /\ UNCHANGED runs

\* A slip in the form: the submit button is not disabled while loading
HandleSubmitWhileLoading ==
    /\ ~IsBlank(searchQuery)
    /\ SearchRecipes(searchQuery)
    /\ UNCHANGED searchQuery
    /\ ev' = NoEv
    /\ UNCHANGED runs

\* onSubmit of the search form, by the submit button or by Enter in the
\* input: the button is disabled while loading or while the query is blank
HandleSubmit ==
    /\ ~loading
    /\ ~IsBlank(searchQuery)
    /\ SearchRecipes(searchQuery)
    /\ UNCHANGED searchQuery
    /\ ev' = NoEv
    /\ UNCHANGED runs

HandleSuggestionClick(ingredient) ==
    /\ ShowsWelcome
    /\ searchQuery' = ingredient
    /\ SearchRecipes(ingredient)
    /\ ev' = NoEv
    /\ UNCHANGED runs

\* Request j of the awaiting search k ends with outcome o.  When the search
\* resumes it runs to its end; the requests it leaves outstanding are orphans.
SearchResponse(k, j, o) ==
    LET s == searches[k]
        st == [s.st EXCEPT ![j] = o]
    IN  /\ s.st[j] = "pending"
        /\ IF Resumes(st)
           THEN /\ SearchFinish(SearchBody(s.query, o))
                /\ searches' = Remove(searches, k)
                /\ orphans' = orphans + Cardinality(Pending(st))
           ELSE /\ searches' = [searches EXCEPT ![k].st = st]
                /\ UNCHANGED <<recipes, loading, error, orphans>>
        /\ UNCHANGED <<searchQuery, hasSearched, selectedRecipe, recipeDetails,
                       detailsLoading, detailsError, details>>
        /\ ev' = NoEv
        /\ runs' = IF Resumes(st) THEN Recorded(s.query, recipes', error') ELSE runs

\* A request of a search that has ended ends: nothing awaits it
OrphanResponse ==
    /\ orphans > 0
    /\ orphans' = orphans - 1
    /\ UNCHANGED <<searchQuery, recipes, loading, error, hasSearched, selectedRecipe,
                   recipeDetails, detailsLoading, detailsError, searches, details>>
    /\ ev' = [id |-> 0, answer |-> "orphan", held |-> Null]
    /\ UNCHANGED runs

\* A slip in the reset: the detail held and its error are left alone
HandleSearchAgainKeepsDetail ==
    /\ ShowsError \/ ShowsGrid
    /\ searchQuery' = <<>>
    /\ recipes' = <<>>
    /\ error' = NoError
    /\ hasSearched' = FALSE
    /\ selectedRecipe' = Null
    /\ UNCHANGED <<recipeDetails, detailsError>>
    /\ UNCHANGED <<loading, detailsLoading, searches, orphans, details>>
    /\ ev' = NoEv
    /\ UNCHANGED runs

\* Reset search and clear all states
HandleSearchAgain ==
    /\ ShowsError \/ ShowsGrid
    /\ searchQuery' = <<>>
    /\ recipes' = <<>>
    /\ error' = NoError
    /\ hasSearched' = FALSE
    /\ selectedRecipe' = Null
    /\ recipeDetails' = Null
    /\ detailsError' = NoError
    /\ UNCHANGED <<loading, detailsLoading, searches, orphans, details>>
    /\ ev' = NoEv
    /\ UNCHANGED runs

-----------------------------------------------------------------------------
(* fetchRecipeDetails *)

\* How a lookup by identifier can end: as Outcomes, with the parsed body
\* holding the record ("found") or none ("notfound").
Answers == {"found", "notfound"} \cup Rejections

\* The record lookup.php?i=id returns
Detail(id) == [idMeal |-> id]

\* A slip: the guard on the identifier is missing
FetchRecipeDetailsUnguarded(recipeId, held) ==
    /\ Len(details) < MaxDetails
    /\ detailsLoading' = TRUE
    /\ detailsError' = NoError
    /\ details' = Append(details, [id |-> recipeId, held |-> held])

\* fetchRecipeDetails(recipeId), up to its first await; an empty identifier
\* is 0.  held is the detail held when the function is called.
FetchRecipeDetails(recipeId, held) ==
    IF recipeId = 0
    THEN UNCHANGED <<detailsLoading, detailsError, details>>
    ELSE /\ Len(details) < MaxDetails
         /\ detailsLoading' = TRUE
         /\ detailsError' = NoError
         /\ details' = Append(details, [id |-> recipeId, held |-> held])

HandleRecipeClick(recipe) ==
    /\ ShowsGrid
    /\ selectedRecipe' = Some(recipe)
    /\ recipeDetails' = Null
    /\ FetchRecipeDetails(recipe.idMeal, Null)
    /\ UNCHANGED searchVars
    /\ UNCHANGED <<searches, orphans>>
    /\ ev' = NoEv
    /\ UNCHANGED runs

\* A slip in the handler: the first card's recipe is fetched, not the selected one
HandleRetryDetailsFirst ==
    /\ ShowsRetry
    /\ FetchRecipeDetails(IF Len(recipes) > 0 THEN recipes[1].idMeal ELSE 0, recipeDetails)
    /\ UNCHANGED <<selectedRecipe, recipeDetails>>
    /\ UNCHANGED searchVars
    /\ UNCHANGED <<searches, orphans>>
    /\ ev' = NoEv
    /\ UNCHANGED runs

\* Try Again of the modal: fetchRecipeDetails(selectedRecipe.idMeal)
HandleRetryDetails ==
    /\ ShowsRetry
    /\ FetchRecipeDetails(selectedRecipe[1].idMeal, recipeDetails)
    /\ UNCHANGED <<selectedRecipe, recipeDetails>>
    /\ UNCHANGED searchVars
    /\ UNCHANGED <<searches, orphans>>
    /\ ev' = NoEv
    /\ UNCHANGED runs

\* try, catch and finally of fetchRecipeDetails once its request has ended
DetailsFinish(id, a) ==
    /\ IF a = "found"
       THEN /\ recipeDetails' = Some(Detail(id))
            /\ UNCHANGED detailsError
       ELSE /\ detailsError' = DetailsCatch(IF a = "notfound" THEN "Error" ELSE a)
            /\ recipeDetails' = Null
    /\ detailsLoading' = FALSE

\* A slip: a lookup that failed is issued again
DetailsResponseRetries(k, a) ==
    IF a \in Rejections
    THEN /\ UNCHANGED <<searchQuery, recipes, loading, error, hasSearched, selectedRecipe,
                        recipeDetails, detailsLoading, detailsError, searches, orphans,
                        details, runs>>
         /\ ev' = NoEv
    ELSE /\ details' = Remove(details, k)
         /\ DetailsFinish(details[k].id, a)
         /\ UNCHANGED selectedRecipe
         /\ UNCHANGED searchVars
         /\ UNCHANGED <<searches, orphans>>
         /\ ev' = [id |-> details[k].id, answer |-> a, held |-> details[k].held]
         /\ UNCHANGED runs

DetailsResponse(k, a) ==
    /\ details' = Remove(details, k)
    /\ DetailsFinish(details[k].id, a)
    /\ UNCHANGED selectedRecipe
    /\ UNCHANGED searchVars
    /\ UNCHANGED <<searches, orphans>>
    /\ ev' = [id |-> details[k].id, answer |-> a, held |-> details[k].held]
    /\ UNCHANGED runs

\* A slip: the error of the detail view is left set
CloseModalKeepsError ==
    /\ ShowsModal
    /\ selectedRecipe' = Null
    /\ recipeDetails' = Null
    /\ UNCHANGED detailsError
    /\ UNCHANGED <<detailsLoading, details, searches, orphans>>
    /\ UNCHANGED searchVars
    /\ ev' = [id |-> selectedRecipe[1].idMeal, answer |-> "closed", held |-> recipeDetails]
    /\ UNCHANGED runs

\* closeModal, from the overlay, the close buttons or the Escape key; ev
\* records the detail that was held
CloseModal ==
    /\ ShowsModal
    /\ selectedRecipe' = Null
    /\ recipeDetails' = Null
    /\ detailsError' = NoError
    /\ UNCHANGED <<detailsLoading, details, searches, orphans>>
    /\ UNCHANGED searchVars
    /\ ev' = [id |-> selectedRecipe[1].idMeal, answer |-> "closed", held |-> recipeDetails]
    /\ UNCHANGED runs

Keys == {"Escape", "Enter"}

\* keydown listener of the document
HandleEscape(key) ==
    IF key = "Escape" /\ selectedRecipe # Null
    THEN CloseModal
    ELSE /\ UNCHANGED <<searchQuery, recipes, loading, error, hasSearched, selectedRecipe,
                        recipeDetails, detailsLoading, detailsError, searches, orphans,
                        details>>
         /\ ev' = NoEv
         /\ UNCHANGED runs

-----------------------------------------------------------------------------
(* The search procedure with its triggers.  It neither reads the detail
   state nor depends on the detail handlers, which write none of searchVars. *)

SearchNext ==
    \/ \E q \in Queries : HandleChange(q)
    \/ HandleSubmit
    \/ \E t \in Suggestions : HandleSuggestionClick(t)
    \/ \E k \in 1..Len(searches) : \E j \in 1..Len(searches[k].st) : \E o \in Outcomes :
          SearchResponse(k, j, o)
    \/ OrphanResponse
    \/ HandleSearchAgain

SearchSpec == Init /\ [][SearchNext]_vars

\* Every issued request eventually resolves or fails
SearchFairSpec ==
    /\ SearchSpec
    /\ WF_vars(\E k \in 1..Len(searches) : \E j \in 1..Len(searches[k].st) :
                  \E o \in Outcomes : SearchResponse(k, j, o))
    /\ WF_vars(OrphanResponse)

-----------------------------------------------------------------------------
(* The detail view with the triggers that lead to it: a search started from
   a suggestion tag, a card of the results grid, the modal's buttons. *)

DetailsNext ==
    \/ \E t \in Suggestions : HandleSuggestionClick(t)
    \/ \E k \in 1..Len(searches) : \E j \in 1..Len(searches[k].st) : \E o \in Outcomes :
          SearchResponse(k, j, o)
    \/ HandleSearchAgain
    \/ \E i \in 1..Len(recipes) : HandleRecipeClick(recipes[i])
    \/ HandleRetryDetails
    \/ \E k \in 1..Len(details) : \E a \in Answers : DetailsResponse(k, a)
    \/ CloseModal
    \/ \E key \in Keys : HandleEscape(key)

DetailsSpec == Init /\ [][DetailsNext]_vars

-----------------------------------------------------------------------------
(* Search and detail view together: the search form with its input
   restricted to AppQueries, the results grid and the modal. *)

AppQueries == { <<"a", ",", "b">> }

AppNext ==
    \/ \E q \in AppQueries : HandleChange(q)
    \/ HandleSubmit
    \/ \E k \in 1..Len(searches) : \E j \in 1..Len(searches[k].st) : \E o \in Outcomes :
          SearchResponse(k, j, o)
    \/ OrphanResponse
    \/ HandleSearchAgain
    \/ \E i \in 1..Len(recipes) : HandleRecipeClick(recipes[i])
    \/ HandleRetryDetails
    \/ \E k \in 1..Len(details) : \E a \in Answers : DetailsResponse(k, a)
    \/ CloseModal
    \/ \E key \in Keys : HandleEscape(key)

AppSpec == Init /\ [][AppNext]_vars

-----------------------------------------------------------------------------
(* The detail view showing a record: the lookup has answered with any of
   DetailRecords, whose ingredient slots 1, 2, 20 and 21 and whose
   instructions vary. *)

SlotValues ==
    { [name |-> Null, measure |-> Null],
      [name |-> Some(<<>>), measure |-> Some(<<"m">>)],
      [name |-> Some(<<" ">>), measure |-> Null],
      [name |-> Some(<<" ", "x", " ">>), measure |-> Null],
      [name |-> Some(<<"y">>), measure |-> Some(<<" ", "m", " ">>)] }

\* The strings of at most n characters over line break, blank and two letters
RECURSIVE Texts(_)
Texts(n) ==
    IF n = 0 THEN {<<>>}
    ELSE LET shorter == Texts(n - 1)
         IN  shorter \cup {Append(t, c) : t \in shorter, c \in {"\n", " ", "a", "b"}}

Slots(v1, v2, v20, v21) ==
    [i \in 1..(SlotCount + 1) |->
        IF i = 1 THEN v1 ELSE IF i = 2 THEN v2 ELSE IF i = SlotCount THEN v20
        ELSE IF i = SlotCount + 1 THEN v21 ELSE [name |-> Null, measure |-> Null]]

DetailOf(id, slots, instructions) ==
    [idMeal |-> id,
     strIngredient |-> [i \in DOMAIN slots |-> slots[i].name],
     strMeasure |-> [i \in DOMAIN slots |-> slots[i].measure],
     strInstructions |-> instructions]

\* The records whose slots vary, and the records whose instructions vary
DetailRecords ==
    { DetailOf(1, Slots(v1, v2, v20, v21), t) :
        v1 \in SlotValues, v2 \in SlotValues, v20 \in SlotValues,
        v21 \in {s \in SlotValues : s.name = Null \/ s.name = Some(<<"y">>)},
        t \in {Null, Some(<<"a">>)} }
    \cup
    { DetailOf(1, Slots(v, v, v, v), Some(x)) :
        v \in {s \in SlotValues : s.name = Some(<<"y">>)}, x \in Texts(MaxText) }

\* recipe 1 of the results for "a" is selected and its detail has arrived
ViewInit ==
    /\ searchQuery = <<"a">>
    /\ recipes = Upstream(<<"a">>)[1]
    /\ loading = FALSE
    /\ error = NoError
    /\ hasSearched = TRUE
    /\ selectedRecipe = Some(recipes[1])
    /\ recipeDetails \in {Some(d) : d \in DetailRecords}
    /\ detailsLoading = FALSE
    /\ detailsError = NoError
    /\ searches = <<>>
    /\ orphans = 0
    /\ details = <<>>
    /\ ev = NoEv
    /\ runs = NoRuns

\* What the modal body renders
ShowsDetails ==
    ShowsModal /\ ~detailsLoading /\ detailsError = NoError /\ recipeDetails # Null
IngredientsShown == ExtractIngredients(recipeDetails[1])
StepsShown == FormatInstructions(recipeDetails[1].strInstructions)

ViewNext ==
    \/ CloseModal
    \/ \E key \in Keys : HandleEscape(key)

ViewSpec == ViewInit /\ [][ViewNext]_vars

-----------------------------------------------------------------------------
(* Runs of one search in sequence, each started when the one before and all
   of its requests have ended.  The query and the way each term's request
   ends are the same in every run; the order in which the responses arrive
   is free. *)

RunQueries == {q \in Queries : Len(Ingredients(q)) > 0}

RunsInit ==
    /\ searchQuery \in RunQueries
    /\ recipes = <<>>
    /\ loading = FALSE
    /\ error = NoError
    /\ hasSearched = FALSE
    /\ selectedRecipe = Null
    /\ recipeDetails = Null
    /\ detailsLoading = FALSE
    /\ detailsError = NoError
    /\ searches = <<>>
    /\ orphans = 0
    /\ details = <<>>
    /\ ev = NoEv
    /\ runs \in {[resp |-> r, out |-> <<>>] :
                   r \in [1..Len(Ingredients(searchQuery)) -> Outcomes]}

RunSubmit ==
    /\ searches = <<>>
    /\ orphans = 0
    /\ Len(runs.out) < MaxRuns
    /\ HandleSubmit

RunsNext ==
    \/ RunSubmit
    \/ \E k \in 1..Len(searches) : \E j \in 1..Len(searches[k].st) :
          SearchResponse(k, j, runs.resp[j])
    \/ OrphanResponse

RunsSpec == RunsInit /\ [][RunsNext]_vars

-----------------------------------------------------------------------------
(* Runs of the search that are compared across queries: the user types one
   of OrderQueries, submits it and waits for the run to end, every request
   being answered with its parsed body, in any order of arrival. *)

OrderQueries ==
    { <<"a">>, <<"a", ",", "a">>, <<"a", ",", "b">>, <<"b", ",", " ", "a">>,
      <<"c">>, <<"c", ",", "c">>, <<"d">>, <<"d", ",", "d">> }

OrderInit ==
    /\ searchQuery = <<>>
    /\ recipes = <<>>
    /\ loading = FALSE
    /\ error = NoError
    /\ hasSearched = FALSE
    /\ selectedRecipe = Null
    /\ recipeDetails = Null
    /\ detailsLoading = FALSE
    /\ detailsError = NoError
    /\ searches = <<>>
    /\ orphans = 0
    /\ details = <<>>
    /\ ev = NoEv
    /\ runs = [resp |-> <<"ok", "ok">>, out |-> <<>>]

OrderNext ==
    \/ \E q \in OrderQueries : HandleChange(q)
    \/ RunSubmit
    \/ \E k \in 1..Len(searches) : \E j \in 1..Len(searches[k].st) :
          SearchResponse(k, j, runs.resp[j])

OrderSpec == OrderInit /\ [][OrderNext]_vars

-----------------------------------------------------------------------------
(* Properties of search (SearchSpec) *)

appVars == <<searchQuery, recipes, loading, error, hasSearched, selectedRecipe,
             recipeDetails, detailsLoading, detailsError, searches, orphans, details>>

\* The step in which request j of search k ends with o and the search
\* resumes, writes its outcome and ends
Ends(k, j, o) ==
    /\ Len(searches') < Len(searches)
    /\ searches[k].st[j] = "pending"
    /\ Resumes([searches[k].st EXCEPT ![j] = o])
    /\ SearchResponse(k, j, o)

\* The response has at least one recipe
HasMatches(meals) == meals # Null /\ Len(meals[1]) > 0

\* The first term's list, filtered to the recipes whose identifier occurs in
\* the list of every term
FirstFiltered(ingredients) ==
    LET InAll(m) == \A t \in 1..Len(ingredients) :
                       \E i \in 1..Len(Upstream(ingredients[t])[1]) :
                          Upstream(ingredients[t])[1][i].idMeal = m.idMeal
    IN  SelectSeq(Upstream(ingredients[1])[1], InAll)

\* No identifier occurs in the list of every term
NoCommon(ingredients) ==
    \/ \E t \in 1..Len(ingredients) : Upstream(ingredients[t]) = Null
    \/ FirstFiltered(ingredients) = <<>>

\* C1: a multi-term search in which every request succeeds and every term
\* has matches ends with recipes equal to the first term's list filtered to
\* the identifiers that occur in every term's list, in the first list's order.
C1_FirstListFiltered ==
    [][\A k \in 1..Len(searches) : \A j \in 1..Len(searches[k].st) :
          LET ingredients == Ingredients(searches[k].query)
          IN  ( /\ Ends(k, j, "ok")
                /\ Len(ingredients) > 1
                /\ \A t \in 1..Len(ingredients) : HasMatches(Upstream(ingredients[t])) )
              => recipes' = FirstFiltered(ingredients)]_vars

\* C1's case: "b, a" has ended with the recipes 3 and 2 of b's list, in b's order
C1_Witness ==
    /\ recipes = Meals(<<"b">>, <<3, 2>>)
    /\ error = NoError
    /\ ~loading

\* C2: a search with exactly one term whose lookup succeeds with at least one
\* recipe ends with recipes equal to the upstream list and with no error set.
C2_SingleTermResult ==
    [][\A k \in 1..Len(searches) :
          LET ingredients == Ingredients(searches[k].query)
          IN  ( /\ Ends(k, 1, "ok")
                /\ ~searches[k].stale
                /\ Len(ingredients) = 1
                /\ HasMatches(Upstream(ingredients[1])) )
              => /\ recipes' = Upstream(ingredients[1])[1]
                 /\ error' = NoError]_vars

\* C2's case: the search for "a" has ended with the three recipes of a's list
C2_Witness ==
    /\ recipes = Meals(<<"a">>, <<1, 2, 3>>)
    /\ error = NoError
    /\ ~loading
    /\ searches = <<>>

\* C3: a search of which some term yields no matches, by an absent list or by
\* an empty one, ends with an error set and with recipes empty.
C3_NoMatchesIsNoResults ==
    [][\A k \in 1..Len(searches) : \A j \in 1..Len(searches[k].st) :
          LET ingredients == Ingredients(searches[k].query)
          IN  ( /\ Ends(k, j, "ok")
                /\ \E t \in 1..Len(ingredients) : ~HasMatches(Upstream(ingredients[t])) )
              => /\ error' # NoError
                 /\ recipes' = <<>>]_vars

\* C4: a multi-term search whose requests all succeed and whose terms have no
\* common identifier ends with recipes empty and with the error that names
\* every requested term, in request order.
C4_ErrorNamesAllTerms ==
    [][\A k \in 1..Len(searches) : \A j \in 1..Len(searches[k].st) :
          LET ingredients == Ingredients(searches[k].query)
          IN  ( /\ Ends(k, j, "ok")
                /\ Len(ingredients) > 1
                /\ NoCommon(ingredients) )
              => /\ error'.kind = "NoRecipesAll"
                 /\ Ingredients(error'.text) = ingredients
                 /\ recipes' = <<>>]_vars

\* C4's case: "a,e" has ended, both terms have matches and none in common
C4_Witness ==
    /\ error = [kind |-> "NoRecipesAll", text |-> <<"a", ",", " ", "e">>]
    /\ recipes = <<>>
    /\ ~loading

\* C5: the responses of a search are ignored once a later search has been
\* started: they change none of recipes, error and loading.  At most one
\* search awaits, the one started last, and a response to a request of a
\* search that has ended changes nothing, so that recipes, error and loading
\* are written by the search started last only.
C5_StaleResponsesIgnored ==
    /\ [](Len(searches) <= 1 /\ \A k \in 1..Len(searches) : ~searches[k].stale)
    /\ [][/\ (OrphanResponse => UNCHANGED <<recipes, error, loading, hasSearched>>)
           /\ \A k \in 1..Len(searches) : \A j \in 1..Len(searches[k].st) :
                 \A o \in Outcomes :
                    (SearchResponse(k, j, o) /\ searches[k].stale)
                        => UNCHANGED <<recipes, error, loading>>]_vars

\* C5's case: a search was started while a request of an earlier search was
\* outstanding, and the response to that request has arrived while the later
\* search awaits
C5_Witness ==
    /\ ev.answer = "orphan"
    /\ Len(searches) = 1
    /\ loading

\* C6: whenever a search error is set, recipes is empty.
C6_NoListBesideError == error # NoError => recipes = <<>>

\* C6's case: a search has ended in an error with a request still
\* outstanding, whose response has arrived since
C6_Witness ==
    /\ ev.answer = "orphan"
    /\ error # NoError
    /\ recipes = <<>>
    /\ searches = <<>>

\* C7: a search for a query whose comma-separated pieces are all empty after
\* trimming issues no request and changes no state.
C7_EmptyTermsNoOp ==
    [][(HandleSubmit /\ Ingredients(searchQuery) = <<>>) => UNCHANGED appVars]_vars

\* C8: a request that fails at transport level ends its search with the
\* connectivity error, one that fails with an HTTP status ends it with the
\* unexpected error, and nothing else sets the connectivity error.
C8_ConnectivityIffTransport ==
    [][/\ \A k \in 1..Len(searches) : \A j \in 1..Len(searches[k].st) :
             /\ Ends(k, j, "TypeError") => error' = NetworkError
             /\ Ends(k, j, "Error") => error' = SearchFailed
       /\ (error' = NetworkError /\ error # NetworkError)
             => \E k \in 1..Len(searches) : \E j \in 1..Len(searches[k].st) :
                   SearchResponse(k, j, "TypeError")]_vars

\* C9: a multi-term search writes its outcome only when all of its requests
\* have ended.
C9_WaitsForAll ==
    [][\A k \in 1..Len(searches) : \A j \in 1..Len(searches[k].st) : \A o \in Outcomes :
          Ends(k, j, o) => Pending([searches[k].st EXCEPT ![j] = o]) = {}]_vars

\* C23: loading is true exactly while a started search has not completed,
\* and, every request being answered eventually, every search completes:
\* loading becomes false again.
C23_LoadingUntilComplete ==
    /\ [](loading <=> searches # <<>>)
    /\ loading ~> ~loading

\* C23's case: a search of two terms has ended by the failure of one request
\* while the other was outstanding, and loading is false
C23_Witness ==
    /\ ~loading
    /\ searches = <<>>
    /\ orphans = 1
    /\ error = SearchFailed

-----------------------------------------------------------------------------
(* Properties of the detail fetch (DetailsSpec) *)

\* C10: a detail fetch whose lookup returns no record ends with detailsError
\* set and detailsLoading false, and leaves the detail that was held when it
\* was called.
C10_NotFoundKeepsDetail ==
    ev.answer = "notfound"
        => /\ detailsError # NoError
           /\ ~detailsLoading
           /\ recipeDetails = ev.held

\* C11: a detail fetch ends in one of three distinct failure outcomes by its
\* cause: not found when the response has no record, connectivity on a
\* transport failure, unexpected on a non-success status; on success it
\* holds the record the lookup returned.
C11_ThreeFailureOutcomes ==
    /\ ev.answer = "found" => recipeDetails = Some(Detail(ev.id))
    /\ ev.answer = "TypeError" => detailsError = DetailsConnection
    /\ ev.answer = "Error" => detailsError = DetailsFailed
    /\ ev.answer = "notfound" => detailsError \notin {NoError, DetailsConnection, DetailsFailed}

\* C12: whenever no recipe is selected, no recipe detail is held.
C12_ClosedHoldsNoDetail == selectedRecipe = Null => recipeDetails = Null

-----------------------------------------------------------------------------
(* Properties of repeated runs (RunsSpec) *)

\* C13: two complete runs of search with the same query and the same response
\* for every term end with the same recipes, in the same order, and the same
\* error, whatever the order in which the responses arrive.
C13_SameRunSameOutcome ==
    Len(runs.out) = 2 => runs.out[1] = runs.out[2]

\* C27: in a multi-term run whose requests all returned a list, every common
\* identifier is in the map built from the first term's list (the fallback
\* scan is not reached), no entry is dropped as null, and the output has one
\* entry for each common identifier.
C27_FallbackNeverReached ==
    \A r \in 1..Len(runs.out) :
        LET ingredients == Ingredients(runs.out[r].query)
            results == [j \in 1..Len(ingredients) |-> Upstream(ingredients[j])]
            lists == [j \in 1..Len(ingredients) |-> results[j][1]]
            common == CommonIds(lists)
            output == runs.out[r].recipes
        IN  (/\ Len(ingredients) > 1
             /\ \A j \in 1..Len(ingredients) : runs.resp[j] = "ok" /\ Truthy(results[j]))
                => /\ \A i \in 1..Len(common) : MealMapHas(lists[1], common[i])
                   /\ Len(output) = Len(common)
                   /\ \A i \in 1..Len(common) : output[i].idMeal = common[i]

\* C27's case: a run of "b, a" has ended with the two common recipes, the
\* first of which is the first entry of the first term's list
C27_Witness ==
    /\ Len(runs.out) > 0
    /\ runs.out[1].query = <<"b", ",", " ", "a">>
    /\ runs.out[1].recipes = Meals(<<"b">>, <<3, 2>>)

-----------------------------------------------------------------------------
(* Properties of runs compared across queries (OrderSpec) *)

\* tx is a rearrangement of ty
SameTerms(tx, ty) ==
    /\ Len(tx) = Len(ty)
    /\ \E p \in [1..Len(tx) -> 1..Len(tx)] :
          /\ \A m, n \in 1..Len(tx) : m # n => p[m] # p[n]
          /\ \A m \in 1..Len(tx) : tx[m] = ty[p[m]]

\* The run ended with a list and no error
Succeeded(out) == out.error = NoError /\ out.recipes # <<>>

\* list holds entries of base, in the order of base
FollowsOrderOf(list, base) ==
    LET Kept(m) == m.idMeal \in IdSet(list)
    IN  list = SelectSeq(base, Kept)

\* C26: two multi-term runs over the same terms in different orders succeed
\* together and end with the same set of identifiers, each list in the order
\* of its own first term's list; a run of "t, t" ends with the same list as
\* a run of "t".
C26_TermOrderAndRepeats ==
    \A i, j \in 1..Len(runs.out) :
        LET x == runs.out[i]
            y == runs.out[j]
            tx == Ingredients(x.query)
            ty == Ingredients(y.query)
        IN  /\ (Len(tx) > 1 /\ SameTerms(tx, ty) /\ Succeeded(x))
                  => /\ Succeeded(y)
                     /\ IdSet(x.recipes) = IdSet(y.recipes)
                     /\ FollowsOrderOf(x.recipes, Upstream(tx[1])[1])
            /\ (Len(tx) = 1 /\ ty = <<tx[1], tx[1]>>) => y.recipes = x.recipes

\* C26's case: runs of "a,b", then of "b, a", have ended with the common
\* recipes, each in the order of its first term
C26_Witness ==
    /\ Len(runs.out) = 2
    /\ runs.out[1].query = <<"a", ",", "b">>
    /\ runs.out[1].recipes = Meals(<<"a">>, <<2, 3>>)
    /\ runs.out[2].query = <<"b", ",", " ", "a">>
    /\ runs.out[2].recipes = Meals(<<"b">>, <<3, 2>>)

\* C18: after an operation has ended in an error, the try-again trigger runs
\* the same operation again with the same input: from a search error the
\* search for the same query, from a detail error the detail fetch for the
\* identifier of the recipe that is still selected.
C18_TryAgainRunsAgain ==
    [][/\ (HandleSearchAgain /\ error # NoError)
             => /\ loading'
                /\ UNCHANGED searchQuery
                /\ Len(searches') = Len(searches) + 1
                /\ searches'[Len(searches')].query = searchQuery
       /\ (HandleRetryDetails /\ selectedRecipe[1].idMeal # 0)
             => /\ Len(details') = Len(details) + 1
                /\ details'[Len(details')].id = selectedRecipe[1].idMeal
                /\ UNCHANGED selectedRecipe]_vars

\* C18 as amended: from a detail error the trigger runs the detail fetch
\* again for the identifier of the recipe that is still selected; from a
\* search error the trigger of the banner runs no search: it clears the
\* query, the recipes and the error, unsets hasSearched and issues no request.
C18_RetryFetchesResetClears ==
    [][/\ (HandleSearchAgain /\ error # NoError)
             => /\ searchQuery' = <<>>
                /\ recipes' = <<>>
                /\ error' = NoError
                /\ ~hasSearched'
                /\ UNCHANGED <<loading, searches, orphans, details>>
       /\ (HandleRetryDetails /\ selectedRecipe[1].idMeal # 0)
             => /\ Len(details') = Len(details) + 1
                /\ details'[Len(details')].id = selectedRecipe[1].idMeal
                /\ detailsLoading'
                /\ detailsError' = NoError
                /\ UNCHANGED selectedRecipe]_vars

\* C18's case: Try Again has started a fetch for the selected recipe (only
\* Try Again calls fetchRecipeDetails while a detail is held)
C18_Witness ==
    /\ selectedRecipe # Null
    /\ detailsLoading
    /\ detailsError = NoError
    /\ \E k \in 1..Len(details) : /\ details[k].held # Null
                                   /\ details[k].id = selectedRecipe[1].idMeal

\* C19: a detail fetch called with an empty or absent identifier issues no
\* request and leaves detailsLoading, detailsError and recipeDetails as they
\* are (handleRecipeClick itself has set recipeDetails to null before the call).
C19_EmptyIdNoOp ==
    [][/\ (\E i \in 1..Len(recipes) : recipes[i].idMeal = 0 /\ HandleRecipeClick(recipes[i]))
             => UNCHANGED <<detailsLoading, detailsError, details>>
       /\ (HandleRetryDetails /\ selectedRecipe[1].idMeal = 0)
             => UNCHANGED <<detailsLoading, detailsError, recipeDetails, details>>]_vars

\* C19's case: the recipe without identifier is selected and nothing is
\* fetched for it
C19_Witness ==
    /\ selectedRecipe # Null
    /\ selectedRecipe[1].idMeal = 0
    /\ details = <<>>
    /\ ~detailsLoading
    /\ detailsError = NoError
    /\ recipeDetails = Null

\* C20: closing the detail view, by the overlay, a close button or the Escape
\* key while a recipe is selected, leaves selectedRecipe null, recipeDetails
\* null and detailsError empty and changes no search state; the Escape key
\* while no recipe is selected changes nothing.
C20_CloseClearsDetailView ==
    [][/\ (CloseModal \/ (selectedRecipe # Null /\ HandleEscape("Escape")))
             => /\ selectedRecipe' = Null
                /\ recipeDetails' = Null
                /\ detailsError' = NoError
                /\ UNCHANGED searchVars
       /\ \A key \in Keys :
             (selectedRecipe = Null /\ HandleEscape(key)) => UNCHANGED appVars]_vars

\* C20's case: the view has been closed while it held a detail
C20_Witness ==
    /\ ev.answer = "closed"
    /\ ev.held # Null
    /\ selectedRecipe = Null
    /\ recipeDetails = Null
    /\ detailsError = NoError

\* C21: whenever a recipe is selected and a detail is held, the detail is
\* the one of the selected recipe.
C21_DetailOfSelected ==
    (selectedRecipe # Null /\ recipeDetails # Null)
        => recipeDetails[1].idMeal = selectedRecipe[1].idMeal

\* C22: detailsLoading is true whenever a detail fetch is in flight.
C22_LoadingWhileInFlight == details # <<>> => detailsLoading

\* C25: the reset action leaves searchQuery empty, recipes empty, error
\* empty, hasSearched false, selectedRecipe null, recipeDetails null and
\* detailsError empty, as in the initial state; it leaves loading and
\* detailsLoading unchanged and issues no request.
C25_ResetReturnsToInitial ==
    [][HandleSearchAgain
          => /\ searchQuery' = <<>>
             /\ recipes' = <<>>
             /\ error' = NoError
             /\ hasSearched' = FALSE
             /\ selectedRecipe' = Null
             /\ recipeDetails' = Null
             /\ detailsError' = NoError
             /\ UNCHANGED <<loading, detailsLoading>>
             /\ UNCHANGED <<searches, orphans, details>>]_vars

\* C25's case: the reset has acted while a detail fetch was in flight
C25_Witness ==
    /\ ~hasSearched
    /\ details # <<>>
    /\ detailsLoading
    /\ searchQuery = <<>>
    /\ recipes = <<>>
    /\ error = NoError
    /\ selectedRecipe = Null
    /\ recipeDetails = Null
    /\ detailsError = NoError

-----------------------------------------------------------------------------
(* Properties of the detail view (ViewSpec) *)

\* The i-th member of a set of numbers in ascending order
Nth(S, k) == CHOOSE i \in S : Cardinality({j \in S : j <= i}) = k

\* C14: extractIngredients returns exactly the slots among 1..20 whose name
\* is present and not blank after trimming, in ascending slot order, each
\* with its trimmed name and with its measure, the empty string when absent;
\* no entry has a blank name and no slot above 20 is read.
C14_ExtractsNamedSlots ==
    ShowsDetails =>
        LET d == recipeDetails[1]
            named == {i \in 1..20 : /\ d.strIngredient[i] # Null
                                    /\ \E c \in 1..Len(d.strIngredient[i][1]) :
                                          ~IsWhitespace(d.strIngredient[i][1][c])}
        IN  /\ Len(IngredientsShown) = Cardinality(named)
            /\ \A k \in 1..Len(IngredientsShown) :
                  LET i == Nth(named, k)
                  IN  /\ IngredientsShown[k].ingredient = Trim(d.strIngredient[i][1])
                      /\ IngredientsShown[k].ingredient # <<>>
                      /\ IngredientsShown[k].measure =
                            IF d.strMeasure[i] = Null THEN <<>> ELSE Trim(d.strMeasure[i][1])

\* C14's case: slot 1 is blank, slot 2 has a name to trim and no measure,
\* slot 20 a name and a measure, slot 21 is populated and is not read
C14_Witness ==
    /\ ShowsDetails
    /\ recipeDetails[1].strIngredient[1] = Some(<<" ">>)
    /\ recipeDetails[1].strIngredient[21] = Some(<<"y">>)
    /\ IngredientsShown = << [ingredient |-> <<"x">>, measure |-> <<>>],
                             [ingredient |-> <<"y">>, measure |-> <<"m">>] >>

\* The lines of a text: the stretches between its line breaks, in order
LinesOf(s) ==
    LET ends == {i \in 1..Len(s) : s[i] = "\n"} \cup {Len(s) + 1}
        StartOf(e) == IF \E b \in ends : b < e
                      THEN SetMax({b \in ends : b < e}) + 1 ELSE 1
    IN  [k \in 1..Cardinality(ends) |-> SubSeq(s, StartOf(Nth(ends, k)), Nth(ends, k) - 1)]

\* C15: formatInstructions returns the empty sequence for null and for the
\* empty string; for any other text it returns the lines of the text, those
\* that are blank after trimming removed, every kept line trimmed, in the
\* order of the text.
C15_TrimmedNonBlankLines ==
    ShowsDetails =>
        LET t == recipeDetails[1].strInstructions
        IN  IF t = Null \/ t[1] = <<>> THEN StepsShown = <<>>
            ELSE LET lines == LinesOf(t[1])
                     kept == {k \in 1..Len(lines) :
                                \E c \in 1..Len(lines[k]) : ~IsWhitespace(lines[k][c])}
                 IN  /\ Len(StepsShown) = Cardinality(kept)
                     /\ \A n \in 1..Len(StepsShown) :
                           StepsShown[n] = Trim(lines[Nth(kept, n)])

\* C15's case: a line with a blank before its text, an empty line, then
\* another line: two different steps, in the order of the text
C15_Witness ==
    /\ ShowsDetails
    /\ recipeDetails[1].strInstructions = Some(<<" ", "b", "\n", "\n", "a">>)
    /\ StepsShown = << <<"b">>, <<"a">> >>

-----------------------------------------------------------------------------
(* Properties of search and detail view together (AppSpec) *)

\* The steps of searchRecipes and of fetchRecipeDetails.  Each names what
\* the step leaves alone before the handler itself.

\* searchRecipes starts for a query that is not blank
SearchStarts ==
    /\ UNCHANGED <<searchQuery, details, orphans>>
    /\ ~IsBlank(searchQuery)
    /\ HandleSubmit

\* a response of a search arrives
SearchResponds ==
    /\ UNCHANGED <<searchQuery, hasSearched, details>>
    /\ searches # <<>>
    /\ \E k \in 1..Len(searches) : \E j \in 1..Len(searches[k].st) : \E o \in Outcomes :
          SearchResponse(k, j, o)

\* fetchRecipeDetails is called, from a card or from Try Again
FetchStarts ==
    /\ UNCHANGED <<searches, orphans>>
    /\ selectedRecipe' # Null
    /\ \/ \E i \in 1..Len(recipes) : HandleRecipeClick(recipes[i])
       \/ HandleRetryDetails

\* the response of a detail fetch arrives
FetchResponds ==
    /\ UNCHANGED <<searches, orphans, selectedRecipe>>
    /\ \E k \in 1..Len(details) : \E a \in Answers : DetailsResponse(k, a)

\* C16: a search, at its start and at its completion, writes none of
\* selectedRecipe, recipeDetails, detailsError and detailsLoading, and a
\* detail fetch writes none of recipes, error, loading, hasSearched and
\* searchQuery.
C16_NoSharedState ==
    [][/\ (SearchStarts \/ SearchResponds) => UNCHANGED detailVars
       /\ (FetchStarts \/ FetchResponds) => UNCHANGED searchVars]_vars

\* C16 as amended: the start of a search clears selectedRecipe, recipeDetails
\* and detailsError and leaves detailsLoading; the arrival of its responses
\* writes no detail state; a detail fetch writes no search state.
C16_SearchStartClearsDetail ==
    [][/\ SearchStarts => /\ selectedRecipe' = Null
                           /\ recipeDetails' = Null
                           /\ detailsError' = NoError
                           /\ UNCHANGED detailsLoading
       /\ SearchResponds => UNCHANGED detailVars
       /\ (FetchStarts \/ FetchResponds) => UNCHANGED searchVars]_vars

\* C16's case: a search has started while a detail fetch was in flight; the
\* detail view is cleared and detailsLoading is still set
C16_Witness ==
    /\ loading
    /\ Len(searches) > 0
    /\ Len(details) > 0
    /\ detailsLoading
    /\ selectedRecipe = Null
    /\ recipeDetails = Null

\* The requests that have been issued and have not ended
InFlight == Outstanding + Len(details)

\* C17: no request is issued again: a search with N terms issues N lookups
\* by ingredient, a detail fetch one lookup by identifier, and the end of a
\* request, whatever its outcome, issues none.
C17_OneRequestEach ==
    [][/\ SearchStarts => /\ Outstanding' = Outstanding + Len(Ingredients(searchQuery))
                           /\ details' = details
       /\ (FetchStarts /\ selectedRecipe'[1].idMeal # 0)
             => /\ Len(details') = Len(details) + 1
                /\ Outstanding' = Outstanding
       /\ (SearchResponds \/ OrphanResponse \/ FetchResponds) => InFlight' = InFlight - 1
       /\ InFlight' > InFlight => (SearchStarts \/ FetchStarts)]_vars

\* C17's case: a search with two terms has issued its two requests while the
\* one request of a detail fetch is in flight
C17_Witness ==
    /\ Len(searches) = 1
    /\ Len(searches[1].st) = 2
    /\ Pending(searches[1].st) = {1, 2}
    /\ orphans = 0
    /\ Len(details) = 1

\* C24: while a search is in progress (loading, one search in flight) no
\* error and no detail error is set, no recipe is selected, no detail is
\* held and the results grid is hidden.
C24_SearchInProgressShowsNothing ==
    (loading /\ Len(searches) = 1)
        => /\ error = NoError
           /\ detailsError = NoError
           /\ selectedRecipe = Null
           /\ recipeDetails = Null
           /\ ~ShowsGrid

====
